---- MODULE Spec2Model ----
(***************************************************************************)
(* Model of the DNS query encoder of part_1.ipynb: header_to_bytes,       *)
(* question_to_bytes, encode_dns_name and build_query, together with the  *)
(* module-level seeded random source that build_query draws ids from.     *)
(*                                                                         *)
(* A Python str is a sequence of code points, a bytes object a sequence   *)
(* of integers 0..255.  A call either returns bytes or raises; its        *)
(* outcome is the record [exc, bytes] with exc = "none" when it returned. *)
(***************************************************************************)
EXTENDS Integers, Sequences, FiniteSets, TLC

\* ------------------------------------------------------------------ bounds

\* Number of calls made in one run of the program.
MaxCalls == 2

\* ------------------------------------------------------------------ inputs

\* Code points: 'a' = 97, 'b' = 98, '.' = 46, U+00E9 = 233 (not ASCII).
Label(n) == [i \in 1..n |-> 97]

WwwExampleCom == <<119, 119, 119, 46, 101, 120, 97, 109, 112, 108, 101, 46, 99, 111, 109>>
ExampleCom == <<101, 120, 97, 109, 112, 108, 101, 46, 99, 111, 109>>
GoogleCom == <<103, 111, 111, 103, 108, 101, 46, 99, 111, 109>>

\* "", "a", ".", "a.", ".a", "a.b", "a..b", "example.com."
ShortNames ==
    {<<>>, <<97>>, <<46>>, <<97, 46>>, <<46, 97>>, <<97, 46, 98>>,
     <<97, 46, 46, 98>>, ExampleCom \o <<46>>}

\* Names with a character outside ASCII, alone and next to ASCII labels.
NonAsciiNames == {<<233>>, <<97, 46, 233>>, <<233, 46>> \o ExampleCom}

\* Names with labels at and beyond the limits 63 (DNS) and 255 (one byte).
LongNames == {Label(63) \o <<46, 97>>, Label(64), Label(255), Label(256)}

DomainNames ==
    {WwwExampleCom, ExampleCom, GoogleCom} \cup ShortNames \cup NonAsciiNames
        \cup LongNames

TYPE_A == 1
CLASS_IN == 1

RecordTypes == {TYPE_A, 65535, 65536, -1}

\* Ids the seeded generator may produce: 0x44CB and 0x8298.
IdSamples == {17611, 33432}

HeaderFields ==
    {"id", "flags", "num_questions", "num_answers", "num_authorities",
     "num_additionals"}

\* DNSHeader(id=0x1314, flags=0, num_questions=1, ...) of the notebook's example.
ExampleHeader ==
    [id |-> 4884, flags |-> 0, num_questions |-> 1, num_answers |-> 0,
     num_authorities |-> 0, num_additionals |-> 0]

\* Headers with every field in 0..65535, and with one field just outside.
Headers ==
    LET inside == [HeaderFields -> {258, 65535}]
        base == [f \in HeaderFields |-> 258]
    IN  inside \cup {ExampleHeader}
            \cup {[base EXCEPT ![f] = v] : f \in HeaderFields, v \in {-1, 65536}}

Questions ==
    [name : {<<>>, <<1, 97, 0>>}, type_ : {TYPE_A, 258, 65536},
     class_ : {CLASS_IN, -1}]

\* ------------------------------------------------------------------ outcomes

Return(bs) == [exc |-> "none", bytes |-> bs]
Raise(e) == [exc |-> e, bytes |-> <<>>]
Returned(r) == r.exc = "none"
NoCall == Raise("not called")

\* ------------------------------------------------------------------ struct.pack

U16 == 0..65535

\* One "H" of a "!"-format: two bytes, most significant first.
pack_H(v) == <<v \div 256, v % 256>>

RECURSIVE pack_all(_)
pack_all(vals) ==
    IF vals = <<>> THEN <<>> ELSE pack_H(Head(vals)) \o pack_all(Tail(vals))

\* A pack that wraps an out-of-range value to 16 bits instead of raising.
struct_pack_wrapping(vals) ==
    Return(pack_all([i \in 1..Len(vals) |-> vals[i] % 65536]))

\* struct.pack("!H...H", *vals): raises struct.error unless every value fits "H".
struct_pack(vals) ==
    IF \A i \in 1..Len(vals) : vals[i] \in U16
    THEN Return(pack_all(vals))
    ELSE Raise("struct.error")

\* ------------------------------------------------------------------ header, question

\* dataclasses.astuple with id and flags exchanged.
astuple_swapped(h) ==
    <<h.flags, h.id, h.num_questions, h.num_answers, h.num_authorities,
      h.num_additionals>>

\* dataclasses.astuple(header): the fields in the order DNSHeader declares them.
astuple(h) ==
    <<h.id, h.flags, h.num_questions, h.num_answers, h.num_authorities,
      h.num_additionals>>

\* header_to_bytes packing each field least significant byte first.
header_to_bytes_le(h) ==
    LET r == struct_pack(astuple(h))
    IN  IF Returned(r)
        THEN Return([i \in 1..Len(r.bytes) |->
                        IF i % 2 = 1 THEN r.bytes[i + 1] ELSE r.bytes[i - 1]])
        ELSE r

header_to_bytes(h) == struct_pack(astuple(h))

\* question_to_bytes that packs the type only ("!H").
question_to_bytes_no_class(q) ==
    LET p == struct_pack(<<q.type_>>)
    IN  IF Returned(p) THEN Return(q.name \o p.bytes) ELSE p

question_to_bytes(q) ==
    LET p == struct_pack(<<q.type_, q.class_>>)
    IN  IF Returned(p) THEN Return(q.name \o p.bytes) ELSE p

\* ------------------------------------------------------------------ encode_dns_name

\* str.encode("ascii", errors="ignore"): drops what it cannot encode.
ascii_encode_ignore(s) == Return(SelectSeq(s, LAMBDA c : c <= 127))

\* str.encode("ascii"): raises on any code point above 127.
ascii_encode(s) ==
    IF \E i \in 1..Len(s) : s[i] > 127
    THEN Raise("UnicodeEncodeError")
    ELSE Return(s)

FirstDot(bs) == CHOOSE i \in 1..Len(bs) : bs[i] = 46 /\ \A j \in 1..(i - 1) : bs[j] # 46

\* bytes.split(b"."): the parts between the dots; b"" splits to [b""].
RECURSIVE split_dot(_)
split_dot(bs) ==
    IF \A i \in 1..Len(bs) : bs[i] # 46
    THEN <<bs>>
    ELSE <<SubSeq(bs, 1, FirstDot(bs) - 1)>>
            \o split_dot(SubSeq(bs, FirstDot(bs) + 1, Len(bs)))

\* bytes([n]): raises ValueError unless n is in range(0, 256).
bytes_of(n) == IF n \in 0..255 THEN Return(<<n>>) ELSE Raise("ValueError")

\* The loop of encode_dns_name over the parts, from the accumulator `encoded`.
RECURSIVE encode_parts(_, _)
encode_parts(parts, encoded) ==
    IF parts = <<>>
    THEN Return(encoded \o <<0>>)
    ELSE LET part == Head(parts)
             n == bytes_of(Len(part))
         IN  IF Returned(n)
             THEN encode_parts(Tail(parts), encoded \o n.bytes \o part)
             ELSE n

\* encode_dns_name without the final zero byte.
encode_dns_name_no_terminator(domain_name) ==
    LET a == ascii_encode(domain_name)
        r == encode_parts(split_dot(a.bytes), <<>>)
    IN  IF ~Returned(a) THEN a
        ELSE IF Returned(r) THEN Return(SubSeq(r.bytes, 1, Len(r.bytes) - 1))
        ELSE r

encode_dns_name(domain_name) ==
    LET a == ascii_encode(domain_name)
    IN  IF Returned(a) THEN encode_parts(split_dot(a.bytes), <<>>) ELSE a

\* ------------------------------------------------------------------ state

VARIABLES
    stream,       \* the outputs of the generator seeded by random.seed(1), in order
    rng,          \* how many of them randint has consumed
    log,          \* one entry per call made so far
    fn,           \* the function called last
    domain_name,  \* its argument (encode_dns_name, build_query)
    record_type,  \* its argument (build_query)
    name,         \* build_query's local: the outcome of encode_dns_name
    id,           \* build_query's local: <<id>> once drawn, else <<>>
    header,       \* header_to_bytes's argument / build_query's local, <<>> if none
    question,     \* question_to_bytes's argument / build_query's local, <<>> if none
    result        \* the outcome of the call

vars ==
    <<stream, rng, log, fn, domain_name, record_type, name, id, header, question,
      result>>

\* random.randint(0, 65535) in generator state r: the value and the next state.
randint(r) == [value |-> stream[r + 1], rng |-> r + 1]

RECURSION_DESIRED_bit9 == 2 ^ 9

RECURSION_DESIRED == 2 ^ 8

DNSHeader(i, f, nq) ==
    [id |-> i, flags |-> f, num_questions |-> nq, num_answers |-> 0,
     num_authorities |-> 0, num_additionals |-> 0]

DNSQuestion(n, t, c) == [name |-> n, type_ |-> t, class_ |-> c]

\* The locals and outcome of a build_query that stopped in encode_dns_name.
StoppedInName(n, r) ==
    [name |-> n, id |-> <<>>, header |-> <<>>, question |-> <<>>, result |-> n,
     rng |-> r]

\* build_query from the point where the name is encoded and the id drawn.
Assemble(n, d, record_type_) ==
    LET h == DNSHeader(d.value, RECURSION_DESIRED, 1)
        q == DNSQuestion(n.bytes, record_type_, CLASS_IN)
        hb == header_to_bytes(h)
        qb == question_to_bytes(q)
    IN  [name |-> n, id |-> <<d.value>>, header |-> <<h>>, question |-> <<q>>,
         result |-> IF ~Returned(hb) THEN hb
                    ELSE IF ~Returned(qb) THEN qb
                    ELSE Return(hb.bytes \o qb.bytes),
         rng |-> d.rng]

\* build_query drawing the id before it encodes the name.
build_query_draws_first(domain_name_, record_type_, r) ==
    LET d == randint(r)
        n == encode_dns_name(domain_name_)
    IN  IF Returned(n)
        THEN Assemble(n, d, record_type_)
        ELSE [StoppedInName(n, d.rng) EXCEPT !.id = <<d.value>>]

\* build_query(domain_name, record_type) run in generator state r.
build_query(domain_name_, record_type_, r) ==
    LET n == encode_dns_name(domain_name_)
    IN  IF Returned(n)
        THEN Assemble(n, randint(r), record_type_)
        ELSE StoppedInName(n, r)

\* ------------------------------------------------------------------ actions

Stage(b) ==
    IF ~Returned(b.name) THEN "name_error"
    ELSE IF ~Returned(b.result) THEN "pack_error"
    ELSE "returned"

\* The log entry of a call to one of the three codec functions.
CodecEntry == [stage |-> "codec", id |-> <<>>]

Init ==
    /\ stream \in [1..MaxCalls -> IdSamples]
    /\ rng = 0
    /\ log = <<>>
    /\ fn = "none"
    /\ domain_name = <<>>
    /\ record_type = 0
    /\ name = NoCall
    /\ id = <<>>
    /\ header = <<>>
    /\ question = <<>>
    /\ result = NoCall

CallBuildQuery ==
    /\ Len(log) < MaxCalls
    /\ \E dn \in DomainNames, rt \in RecordTypes :
        \E b \in {build_query(dn, rt, rng)} :
            /\ fn' = "build_query"
            /\ domain_name' = dn
            /\ record_type' = rt
            /\ name' = b.name
            /\ id' = b.id
            /\ header' = b.header
            /\ question' = b.question
            /\ result' = b.result
            /\ rng' = b.rng
            /\ log' = Append(log, [stage |-> Stage(b), id |-> b.id])
    /\ UNCHANGED stream

CallEncodeDnsName ==
    /\ Len(log) < MaxCalls
    /\ \E dn \in DomainNames :
        /\ fn' = "encode_dns_name"
        /\ domain_name' = dn
        /\ result' = encode_dns_name(dn)
    /\ record_type' = 0
    /\ name' = NoCall
    /\ id' = <<>>
    /\ header' = <<>>
    /\ question' = <<>>
    /\ log' = Append(log, CodecEntry)
    /\ UNCHANGED <<stream, rng>>

CallHeaderToBytes ==
    /\ Len(log) < MaxCalls
    /\ \E h \in Headers :
        /\ fn' = "header_to_bytes"
        /\ header' = <<h>>
        /\ result' = header_to_bytes(h)
    /\ domain_name' = <<>>
    /\ record_type' = 0
    /\ name' = NoCall
    /\ id' = <<>>
    /\ question' = <<>>
    /\ log' = Append(log, CodecEntry)
    /\ UNCHANGED <<stream, rng>>

CallQuestionToBytes ==
    /\ Len(log) < MaxCalls
    /\ \E q \in Questions :
        /\ fn' = "question_to_bytes"
        /\ question' = <<q>>
        /\ result' = question_to_bytes(q)
    /\ domain_name' = <<>>
    /\ record_type' = 0
    /\ name' = NoCall
    /\ id' = <<>>
    /\ header' = <<>>
    /\ log' = Append(log, CodecEntry)
    /\ UNCHANGED <<stream, rng>>

Next ==
    \/ CallBuildQuery
    \/ CallEncodeDnsName
    \/ CallHeaderToBytes
    \/ CallQuestionToBytes

Spec == Init /\ [][Next]_vars

\* ------------------------------------------------------------------ properties

IsAscii(s) == \A i \in 1..Len(s) : s[i] <= 127
InU16(v) == v >= 0 /\ v <= 65535
HiLo(v) == <<v \div 256, v % 256>>

\* Reads length-prefixed labels up to the first zero length byte.
RECURSIVE DecodeName(_)
DecodeName(bs) ==
    IF bs = <<>> \/ bs[1] = 0
    THEN <<>>
    ELSE <<SubSeq(bs, 2, 1 + bs[1])>> \o DecodeName(SubSeq(bs, 2 + bs[1], Len(bs)))

RECURSIVE WireLen(_)
WireLen(labels) ==
    IF labels = <<>> THEN 0 ELSE 1 + Len(Head(labels)) + WireLen(Tail(labels))

\* Labels of 1..63 bytes each, closed by one zero byte that ends the sequence.
RECURSIVE WellFormedName(_)
WellFormedName(bs) ==
    /\ bs # <<>>
    /\ IF bs[1] = 0
       THEN Len(bs) = 1
       ELSE /\ bs[1] >= 1
            /\ bs[1] <= 63
            /\ Len(bs) >= bs[1] + 2
            /\ WellFormedName(SubSeq(bs, 2 + bs[1], Len(bs)))

\* 82980100000100000000000003777777076578616d706c6503636f6d0000010001
ReferenceQuery ==
    <<130, 152, 1, 0, 0, 1, 0, 0, 0, 0, 0, 0, 3, 119, 119, 119, 7, 101, 120, 97,
      109, 112, 108, 101, 3, 99, 111, 109, 0, 0, 1, 0, 1>>

\* 06 676f6f676c65 03 636f6d 00
GoogleComEncoded == <<6, 103, 111, 111, 103, 108, 101, 3, 99, 111, 109, 0>>

BuiltQuery == fn = "build_query" /\ Returned(result)

\* C1: a query that build_query returns is the id as 2 big-endian bytes, then
\* 01 00, then 00 01 00 00 00 00 00 00, then encode_dns_name(domain_name), then
\* record_type as 2 big-endian bytes, then 00 01; it is a function of the id
\* drawn, the name and the type alone, and with id 0x8298, "www.example.com"
\* and type 1 it is the reference query.
C1_QueryLayout ==
    BuiltQuery =>
        /\ Len(id) = 1
        /\ result.bytes =
               HiLo(id[1]) \o <<1, 0>> \o <<0, 1, 0, 0, 0, 0, 0, 0>>
                   \o encode_dns_name(domain_name).bytes
                   \o HiLo(record_type) \o <<0, 1>>
        /\ (id = <<33432>> /\ domain_name = WwwExampleCom /\ record_type = 1)
               => result.bytes = ReferenceQuery

C1_Witness ==
    /\ BuiltQuery
    /\ id = <<33432>>
    /\ domain_name = WwwExampleCom
    /\ record_type = 1
    /\ result.bytes = ReferenceQuery

\* C2: the header build_query constructs has flags exactly 0x0100, one
\* question and no answers, authorities or additionals, and the query's bytes
\* 3..12 say so.
C2_QueryHeader ==
    (fn = "build_query" /\ header # <<>>) =>
        /\ header[1].flags = 256
        /\ header[1].num_questions = 1
        /\ header[1].num_answers = 0
        /\ header[1].num_authorities = 0
        /\ header[1].num_additionals = 0
        /\ Returned(result) =>
               SubSeq(result.bytes, 3, 12) = <<1, 0, 0, 1, 0, 0, 0, 0, 0, 0>>

C2_Witness ==
    /\ BuiltQuery
    /\ domain_name = GoogleCom
    /\ record_type = 65535
    /\ header # <<>>
    /\ header[1].flags = 256

\* What C3 says of the encoding of a name whose labels are `labels`.
RoundTrips(labels) ==
    /\ Returned(result)
    /\ result.bytes[1] = Len(labels[1])
    /\ result.bytes[Len(result.bytes)] = 0
    /\ Len(result.bytes) = WireLen(labels) + 1
    /\ DecodeName(result.bytes) = labels

\* C3 as stated: for every ASCII name with labels of at most 63 bytes the
\* output begins with the first label's length, ends with a single zero byte
\* and decodes to the input split on '.'.
C3_RoundTripAnyLabels ==
    (/\ fn = "encode_dns_name"
     /\ IsAscii(domain_name)
     /\ \A i \in 1..Len(split_dot(domain_name)) : Len(split_dot(domain_name)[i]) <= 63)
        => RoundTrips(split_dot(domain_name))

\* C3 amended: the same for every ASCII name whose labels each have 1 to 63
\* bytes.
C3_RoundTrip ==
    (/\ fn = "encode_dns_name"
     /\ IsAscii(domain_name)
     /\ \A i \in 1..Len(split_dot(domain_name)) :
            /\ Len(split_dot(domain_name)[i]) >= 1
            /\ Len(split_dot(domain_name)[i]) <= 63)
        => RoundTrips(split_dot(domain_name))

C3_Witness ==
    /\ fn = "encode_dns_name"
    /\ domain_name = GoogleCom
    /\ result = Return(GoogleComEncoded)
    /\ DecodeName(result.bytes) = <<SubSeq(GoogleCom, 1, 6), SubSeq(GoogleCom, 8, 10)>>

\* C4: for a name that ends in '.', the output of encode_dns_name does not end
\* in two zero bytes, and equals the output for the name without that dot
\* when the labels of the latter are all non-empty.
C4_TrailingDot ==
    (/\ fn = "encode_dns_name"
     /\ domain_name # <<>>
     /\ domain_name[Len(domain_name)] = 46
     /\ Returned(result))
        => LET n == Len(result.bytes)
               stem == SubSeq(domain_name, 1, Len(domain_name) - 1)
           IN  /\ ~(n >= 2 /\ result.bytes[n] = 0 /\ result.bytes[n - 1] = 0)
               /\ (\A i \in 1..Len(split_dot(stem)) : split_dot(stem)[i] # <<>>)
                      => result = encode_dns_name(stem)

\* C5: for a name with a non-ASCII character, encode_dns_name and build_query
\* raise the encoding error and return no bytes; build_query gets no encoded
\* name either.
C5_NonAsciiRaises ==
    (/\ fn \in {"encode_dns_name", "build_query"}
     /\ \E i \in 1..Len(domain_name) : domain_name[i] > 127)
        => /\ result.exc = "UnicodeEncodeError"
           /\ result.bytes = <<>>
           /\ fn = "build_query" => (name.exc = "UnicodeEncodeError" /\ name.bytes = <<>>)

C5_Witness ==
    /\ fn = "build_query"
    /\ domain_name = <<233, 46>> \o ExampleCom
    /\ record_type = TYPE_A
    /\ result.exc = "UnicodeEncodeError"

\* C6: for a header with six fields in 0..65535, header_to_bytes returns 12
\* bytes, bytes 2k and 2k+1 (from 0) being the high and low byte of the k-th
\* of id, flags, num_questions, num_answers, num_authorities, num_additionals.
C6_HeaderLayout ==
    (fn = "header_to_bytes" /\ \A f \in HeaderFields : InU16(header[1][f])) =>
        LET h == header[1]
            fields == <<h["id"], h["flags"], h["num_questions"], h["num_answers"],
                        h["num_authorities"], h["num_additionals"]>>
        IN  /\ Returned(result)
            /\ Len(result.bytes) = 12
            /\ \A k \in 0..5 :
                   /\ result.bytes[2 * k + 1] = fields[k + 1] \div 256
                   /\ result.bytes[2 * k + 2] = fields[k + 1] % 256
            /\ h = ExampleHeader =>
                   result.bytes = <<19, 20, 0, 0, 0, 1, 0, 0, 0, 0, 0, 0>>

C6_Witness ==
    /\ fn = "header_to_bytes"
    /\ header = <<ExampleHeader>>
    /\ result = Return(<<19, 20, 0, 0, 0, 1, 0, 0, 0, 0, 0, 0>>)

\* C7: for an ASCII name that encodes and a record_type in 0..65535, the query
\* is 12 + len(encode_dns_name(domain_name)) + 4 bytes long; "example.com"
\* encodes to 13 bytes and gives a query of 29.
C7_QueryLength ==
    (/\ fn = "build_query"
     /\ Returned(encode_dns_name(domain_name))
     /\ InU16(record_type))
        => /\ Returned(result)
           /\ Len(result.bytes) = 12 + Len(encode_dns_name(domain_name).bytes) + 4
           /\ domain_name = ExampleCom =>
                  (Len(name.bytes) = 13 /\ Len(result.bytes) = 29)

C7_Witness ==
    /\ BuiltQuery
    /\ domain_name = ExampleCom
    /\ record_type = TYPE_A
    /\ Len(result.bytes) = 29

\* C8: every byte sequence encode_dns_name returns is a well-formed encoded
\* name: labels with a length byte in 1..63 each, then a single zero byte.
C8_WellFormedOutput ==
    (fn = "encode_dns_name" /\ Returned(result)) => WellFormedName(result.bytes)

\* C9: with a header field, or a question's type or class, outside 0..65535,
\* header_to_bytes and question_to_bytes raise struct.error and return no
\* bytes; build_query with a record_type outside 0..65535 returns no bytes,
\* raising struct.error when the name encodes.
C9_OutOfRangeRaises ==
    /\ (fn = "header_to_bytes" /\ \E f \in HeaderFields : ~InU16(header[1][f]))
           => result = Raise("struct.error")
    /\ (/\ fn = "question_to_bytes"
        /\ (~InU16(question[1].type_) \/ ~InU16(question[1].class_)))
           => result = Raise("struct.error")
    /\ (fn = "build_query" /\ ~InU16(record_type))
           => /\ ~Returned(result)
              /\ result.bytes = <<>>
              /\ Returned(name) => result = Raise("struct.error")

C9_Witness ==
    /\ fn = "build_query"
    /\ domain_name = ExampleCom
    /\ record_type = 65536
    /\ result = Raise("struct.error")

BuildEntries == SelectSeq(log, LAMBDA e : e.stage # "codec")
DrawEntries == SelectSeq(BuildEntries, LAMBDA e : e.stage # "name_error")

\* C10: over any sequence of calls, a build_query that returns has drawn
\* exactly one id, in 0..65535; nothing but build_query moves the random
\* source; a build_query that fails in name encoding draws nothing, so the
\* k-th call that gets past name encoding receives the k-th output of the
\* seeded generator, whatever failed calls came before it.
C10_Draws ==
    /\ rng = Len(DrawEntries)
    /\ \A k \in 1..Len(log) :
           /\ log[k].stage \in {"name_error", "codec"} => log[k].id = <<>>
           /\ log[k].stage = "returned" => Len(log[k].id) = 1
    /\ \A k \in 1..Len(DrawEntries) :
           /\ DrawEntries[k].id = <<stream[k]>>
           /\ InU16(stream[k])
    /\ BuiltQuery => (id = <<stream[rng]>> /\ SubSeq(result.bytes, 1, 2) = HiLo(id[1]))

C10_Witness ==
    /\ Len(log) = 2
    /\ log[1].stage = "name_error"
    /\ log[2].stage = "returned"
    /\ BuiltQuery
    /\ rng = 1
    /\ id = <<stream[1]>>

====
